---- MODULE Spec2Model ----
(***************************************************************************)
(* Model of the AFL QEMU-mode shim (src/afl-qemu-cpu-inl.h): afl_setup,    *)
(* the fork server afl_forkserver, the coverage logger afl_maybe_log and   *)
(* the translation relay afl_request_tsl / afl_wait_tsl.                   *)
(*                                                                         *)
(* A state holds the per-process copies of the shim's globals and of       *)
(* afl_forkserver's locals, the shared bitmap, the kernel's process table  *)
(* and the two pipes of the fuzzing controller.  One action is one system  *)
(* call (or one straight-line stretch between system calls) of one         *)
(* process.                                                                *)
(*                                                                         *)
(* Spec is the whole shim under a controller.  The other specifications    *)
(* run one part of it on its own: SpecRelay the relay receiver, SpecSetup  *)
(* afl_setup under any ratio, SpecLog and SpecWrap afl_maybe_log in one    *)
(* thread, SpecThreads afl_maybe_log in two threads of one process, and    *)
(* SpecLive the fork server's loop under fair scheduling.                  *)
(***************************************************************************)
EXTENDS Integers, Sequences, FiniteSets, TLC

(* ------------------------------ bounds -------------------------------- *)

\* number of fork() calls that succeed in one behaviour
MaxFork == 2
\* blocks executed and translation requests made in one behaviour
MaxRun == 3
\* log2 of the bitmap size (config.h is not part of the sources; AFL ships 16)
MAP_SIZE_POW2 == 16
\* calls of afl_maybe_log in one behaviour of the logging harness
MaxLog == 4
\* calls of afl_maybe_log for one and the same block, enough to take the
\* counter of its edge once around a byte and past it
MaxHits == 258

(* ----------------------------- constants ------------------------------ *)

MAP_SIZE == 2 ^ MAP_SIZE_POW2

\* the controller's descriptors: read side FORKSRV_FD, write side FORKSRV_FD + 1
FORKSRV_FD == 198
TSL_FD == FORKSRV_FD - 1

\* static unsigned char tmp[4] = "1234"
TOKEN == "1234"

\* exit codes of the shim
EXIT_SHMAT == 1
EXIT_PARENT_DEAD == 2
EXIT_FORK == 4
EXIT_WRITE_PID == 5
EXIT_WAITPID == 6
EXIT_WRITE_STATUS == 7

NULL == "NULL"
SHM == "shm"
NoEnv == "unset"

\* the process qemu was started as, and the pids fork() hands out after it
Root == 1
Procs == Root .. (Root + MaxFork)

\* block addresses the translation engine executes; EntryPoint is afl_entry_point
EntryPoint == 16
Addrs == {EntryPoint, 128}

\* values of the AFL_INST_RATIO environment variable: unset, or set to text
\* that atoi() reads as val
RatioUnset == [set |-> FALSE, val |-> 0]
RatioSet(v) == [set |-> TRUE, val |-> v]
InstRatioInputs == {RatioUnset, RatioSet(50)}

\* the ratios tried where only afl_setup and afl_maybe_log run: below zero,
\* zero, the least, a middle one, the most, and beyond it
RatioInputsWide == {RatioUnset} \cup {RatioSet(v) : v \in {-1, 0, 1, 50, 100, 101}}

\* block addresses handed to afl_maybe_log in the logging harness: low ones,
\* and one with every bit set that the scrambling can move into the index
LogAddrs == {0, EntryPoint, 128, 256, (2 ^ 23) - 1}

\* what a 4-byte write() on an open descriptor may return (error, short, full)
WriteOutcomes == {-1, 2, 4}

\* sizeof(struct afl_tsl) and what a relay write() may return
TslSize == 24
TslWriteOutcomes == {-1, TslSize}

\* the execution threads of a process: the cpu thread that reaches the entry
\* point, and one more that the target may start
MainThread == 1
Threads == {MainThread, MainThread + 1}

\* the wait status of a process that called exit(code)
WExit(code) == code * 256
\* the wait status of a process killed by SIGKILL
WKilled == WExit(0) + 9

(* --------------------------- bit arithmetic --------------------------- *)

RECURSIVE BitXor(_, _)
BitXor(a, b) ==
  IF a = 0 THEN b
  ELSE IF b = 0 THEN a
  ELSE (((a % 2) + (b % 2)) % 2) + (2 * BitXor(a \div 2, b \div 2))

RECURSIVE BitAnd(_, _)
BitAnd(a, b) ==
  IF a = 0 \/ b = 0 THEN 0
  ELSE ((a % 2) * (b % 2)) + (2 * BitAnd(a \div 2, b \div 2))

(* ------------------------------- state -------------------------------- *)

VARIABLES
  pc,              \* [Procs -> position in the shim]
  afl_area_ptr,    \* [Procs -> NULL or SHM]
  afl_fork_child,  \* [Procs -> 0..1]
  afl_forksrv_pid, \* [Procs -> pid]
  afl_inst_rms,    \* [Procs -> sampling rate]
  prev_loc,        \* [Procs -> [Threads -> the thread's static __thread prev_loc]]
  tmp,             \* [Procs -> contents of afl_forkserver's static tmp]
  failed_len,      \* [Procs -> result of the last go read]
  child_pid,       \* [Procs -> afl_forkserver's local child_pid]
  status,          \* [Procs -> afl_forkserver's local status]
  fds,             \* [Procs -> set of open descriptors among the shim's three]
  exit_code,       \* [Procs -> code passed to exit(), -1 while running]
  exit_at,         \* [Procs -> position at which the process terminated]
  budget,          \* blocks executed and translation requests made so far
  afl_area,        \* the shared bitmap: slot -> byte, for the slots written
  pstate,          \* [Procs -> "unborn", "running", "zombie", "reaped"]
  wstatus,         \* [Procs -> wait status of a terminated process]
  ppid,            \* [Procs -> parent pid, 0 for Root]
  nforks,          \* successful fork() calls so far
  pipe_in,         \* bytes queued in the controller -> fork server pipe
  ctl_closed,      \* the controller has closed its descriptors
  ctl_out,         \* what was written to the fork server -> controller pipe
  id_str,          \* getenv(SHM_ENV_VAR)
  inst_r,          \* getenv("AFL_INST_RATIO")
  tsl_chan,        \* records written to TSL_FD and not yet read
  tsl_writes,      \* write() calls made on TSL_FD so far
  tsl_fd,          \* state of the descriptor afl_wait_tsl reads
  t,               \* afl_wait_tsl's buffer t
  tsl_rx,          \* records afl_wait_tsl has read in full
  tb_gen,          \* blocks afl_wait_tsl asked the engine to compile
  tpc,             \* [Procs -> [Threads -> position inside afl_maybe_log]]
  scr_loc,         \* [Procs -> [Threads -> afl_maybe_log's cur_loc once scrambled]]
  reg,             \* [Procs -> [Threads -> slot and byte loaded for the increment]]
  calls,           \* the calls of afl_maybe_log made by the logging harness
  area0            \* the bitmap as it was handed over

procVars == <<pc, afl_area_ptr, afl_fork_child, afl_forksrv_pid, afl_inst_rms,
              prev_loc, tmp, failed_len, child_pid, status, fds, exit_code,
              exit_at, budget>>
kernVars == <<pstate, wstatus, ppid, nforks>>
ctlVars  == <<pipe_in, ctl_closed, ctl_out>>
envVars  == <<id_str, inst_r>>
tslVars  == <<tsl_chan, tsl_writes, tsl_fd, t, tsl_rx, tb_gen>>
logVars  == <<tpc, scr_loc, reg, calls, area0>>

vars == <<procVars, afl_area, kernVars, ctlVars, envVars, tslVars, logVars>>

(* ------------------------------ helpers ------------------------------- *)

Upd(f, p, v) == [f EXCEPT ![p] = v]

\* afl_area_ptr[i] for the shared segment, which the controller hands over zeroed
Slot(m, i) == IF i \in DOMAIN m THEN m[i] ELSE 0
Store(m, i, v) == [j \in (DOMAIN m) \cup {i} |-> IF j = i THEN v ELSE m[j]]

\* write(fd, buf, 4) by process p: what it may return; EBADF on a descriptor
\* p has closed, EPIPE once the controller is gone
WriteResults(p, fd) ==
  IF fd \in fds[p] /\ ~ctl_closed THEN WriteOutcomes ELSE {-1}

\* the bytes a write that returned n leaves in the controller's pipe
Deliver(out, p, kind, val, n) ==
  IF n > 0 THEN Append(out, [by |-> p, kind |-> kind, val |-> val, len |-> n])
  ELSE out

\* read(FORKSRV_FD, tmp, 4) by process p: the set of values it may return now;
\* empty while the read blocks
ReadResults(p) ==
  IF FORKSRV_FD \notin fds[p] THEN {-1}
  ELSE {-1} \cup (IF pipe_in >= 4 THEN {4}
                  ELSE IF pipe_in > 0 THEN {pipe_in}
                  ELSE IF ctl_closed THEN {0} ELSE {})

\* exit(code) of process p: the kernel keeps the wait status for the parent
Terminate(p, code) ==
  /\ pc' = Upd(pc, p, "exited")
  /\ exit_code' = Upd(exit_code, p, code)
  /\ exit_at' = Upd(exit_at, p, pc[p])
  /\ fds' = Upd(fds, p, {})
  /\ pstate' = Upd(pstate, p, "zombie")
  /\ wstatus' = Upd(wstatus, p, WExit(code))

Running(p) == pstate[p] = "running"

(* ------------------------------- Init --------------------------------- *)

InitFds == {{FORKSRV_FD, FORKSRV_FD + 1}, {TSL_FD, FORKSRV_FD, FORKSRV_FD + 1}}

InitProcs ==
  /\ pc = [p \in Procs |-> IF p = Root THEN "run" ELSE "unborn"]
  /\ afl_area_ptr = [p \in Procs |-> NULL]
  /\ afl_fork_child = [p \in Procs |-> 0]
  /\ afl_forksrv_pid = [p \in Procs |-> 0]
  /\ afl_inst_rms = [p \in Procs |-> MAP_SIZE]
  /\ prev_loc = [p \in Procs |-> [th \in Threads |-> 0]]
  /\ tmp = [p \in Procs |-> TOKEN]
  /\ failed_len = [p \in Procs |-> 0]
  /\ child_pid = [p \in Procs |-> 0]
  /\ status = [p \in Procs |-> 0]
  /\ exit_code = [p \in Procs |-> -1]
  /\ exit_at = [p \in Procs |-> "none"]
  /\ budget = 0
  /\ pstate = [p \in Procs |-> IF p = Root THEN "running" ELSE "unborn"]
  /\ wstatus = [p \in Procs |-> 0]
  /\ ppid = [p \in Procs |-> 0]
  /\ nforks = 0
  /\ afl_area = [i \in {} |-> 0]

InitCalls ==
  /\ tpc = [p \in Procs |-> [th \in Threads |-> "idle"]]
  /\ scr_loc = [p \in Procs |-> [th \in Threads |-> 0]]
  /\ reg = [p \in Procs |-> [th \in Threads |-> [at |-> 0, val |-> 0]]]
  /\ calls = <<>>
  /\ area0 = afl_area

InitTsl ==
  /\ tsl_chan = <<>>
  /\ tsl_writes = 0
  /\ tsl_fd = "none"
  /\ t = [pc |-> 0, cs_base |-> 0, flags |-> 0]
  /\ tsl_rx = <<>>
  /\ tb_gen = <<>>

Init ==
  /\ InitProcs
  /\ InitTsl
  /\ InitCalls
  /\ \E f \in InitFds : fds = [p \in Procs |-> IF p = Root THEN f ELSE {}]
  /\ id_str \in {NoEnv, "shmid"}
  /\ inst_r \in InstRatioInputs
  /\ pipe_in = 0
  /\ ctl_closed = FALSE
  /\ ctl_out = <<>>

(* ----------------------------- afl_setup ------------------------------ *)

\* ClampRatio without the step that lifts zero to 1
ClampRatio_NoFloor(x) ==
  IF x < 0 \/ x > 100 THEN 100 ELSE x

\* r = atoi(inst_r) as unsigned int, clamped: above 100 to 100, zero to 1
\* (a negative int converts to an unsigned value of at least 2^31, above 100)
ClampRatio(x) ==
  IF x < 0 \/ x > 100 THEN 100 ELSE IF x = 0 THEN 1 ELSE x

\* afl_inst_rms after the ratio block of afl_setup, from its value before
SetupRms(old) ==
  IF inst_r.set THEN (MAP_SIZE * ClampRatio(inst_r.val)) \div 100 ELSE old

\* afl_setup(): shmat() succeeds or fails, as the kernel decides
afl_setup(p) ==
  /\ Running(p) /\ pc[p] = "setup"
  /\ afl_inst_rms' = Upd(afl_inst_rms, p, SetupRms(afl_inst_rms[p]))
  /\ \/ /\ id_str = NoEnv
        /\ pc' = Upd(pc, p, "forkserver")
        /\ UNCHANGED <<afl_area_ptr, afl_area, exit_code, exit_at, fds, pstate, wstatus>>
     \/ /\ id_str # NoEnv
        /\ afl_area_ptr' = Upd(afl_area_ptr, p, SHM)
        /\ afl_area' = IF inst_r.set THEN Store(afl_area, 0, 1) ELSE afl_area
        /\ pc' = Upd(pc, p, "forkserver")
        /\ UNCHANGED <<exit_code, exit_at, fds, pstate, wstatus>>
     \/ /\ id_str # NoEnv
        /\ Terminate(p, EXIT_SHMAT)
        /\ UNCHANGED <<afl_area_ptr, afl_area>>
  /\ UNCHANGED <<afl_fork_child, afl_forksrv_pid, prev_loc, tmp, failed_len,
                 child_pid, status, budget, ppid, nforks, ctlVars, envVars, logVars, tslVars>>

(* --------------------------- afl_maybe_log ---------------------------- *)

\* Scramble without the mask
Scramble_NoMask(cur_loc) == BitXor(cur_loc \div 16, cur_loc * 256)

\* cur_loc = (cur_loc >> 4) ^ (cur_loc << 8); cur_loc &= MAP_SIZE - 1
\* (the mask drops every bit the word width of abi_ulong would truncate)
Scramble(cur_loc) == BitAnd(BitXor(cur_loc \div 16, cur_loc * 256), MAP_SIZE - 1)

\* the call records: bitmap attached and scrambled location below the rate
Records(p, cur_loc) ==
  afl_area_ptr[p] # NULL /\ Scramble(cur_loc) < afl_inst_rms[p]

\* the slot afl_area_ptr[cur_loc ^ prev_loc]
EdgeSlot(p, th, cur_loc) == BitXor(Scramble(cur_loc), prev_loc[p][th])

\* afl_maybe_log that moves prev_loc on before the test against the rate
afl_maybe_log_EarlyPrevLoc(p, th, cur_loc) ==
  IF afl_area_ptr[p] = NULL THEN UNCHANGED <<afl_area, prev_loc>>
  ELSE /\ prev_loc' = [prev_loc EXCEPT ![p][th] = Scramble(cur_loc) \div 2]
       /\ afl_area' = IF Scramble(cur_loc) < afl_inst_rms[p]
                      THEN Store(afl_area, EdgeSlot(p, th, cur_loc),
                                 (Slot(afl_area, EdgeSlot(p, th, cur_loc)) + 1) % 256)
                      ELSE afl_area

\* afl_maybe_log that keeps the scrambled location as it is, without the shift
afl_maybe_log_NoShift(p, th, cur_loc) ==
  IF Records(p, cur_loc)
  THEN /\ afl_area' = Store(afl_area, EdgeSlot(p, th, cur_loc),
                            (Slot(afl_area, EdgeSlot(p, th, cur_loc)) + 1) % 256)
       /\ prev_loc' = [prev_loc EXCEPT ![p][th] = Scramble(cur_loc)]
  ELSE UNCHANGED <<afl_area, prev_loc>>

\* afl_maybe_log with counters that stop at 255
afl_maybe_log_Saturate(p, th, cur_loc) ==
  IF Records(p, cur_loc)
  THEN /\ afl_area' = Store(afl_area, EdgeSlot(p, th, cur_loc),
                            IF Slot(afl_area, EdgeSlot(p, th, cur_loc)) = 255 THEN 255
                            ELSE Slot(afl_area, EdgeSlot(p, th, cur_loc)) + 1)
       /\ prev_loc' = [prev_loc EXCEPT ![p][th] = Scramble(cur_loc) \div 2]
  ELSE UNCHANGED <<afl_area, prev_loc>>

\* afl_maybe_log that counts the slot of the block, not of the edge
afl_maybe_log_NoXor(p, th, cur_loc) ==
  IF Records(p, cur_loc)
  THEN /\ afl_area' = Store(afl_area, Scramble(cur_loc),
                            (Slot(afl_area, Scramble(cur_loc)) + 1) % 256)
       /\ prev_loc' = [prev_loc EXCEPT ![p][th] = Scramble(cur_loc) \div 2]
  ELSE UNCHANGED <<afl_area, prev_loc>>

\* one call on thread th of process p, with no other thread inside the call
afl_maybe_log(p, th, cur_loc) ==
  IF Records(p, cur_loc)
  THEN /\ afl_area' = Store(afl_area, EdgeSlot(p, th, cur_loc),
                            (Slot(afl_area, EdgeSlot(p, th, cur_loc)) + 1) % 256)
       /\ prev_loc' = [prev_loc EXCEPT ![p][th] = Scramble(cur_loc) \div 2]
  ELSE UNCHANGED <<afl_area, prev_loc>>

(* ------------------ the translation engine (callers) ------------------ *)

\* AFL_QEMU_CPU_SNIPPET2 for a block at address a: at the entry point the
\* shim is set up and the fork server entered before the block is logged
ExecBlock(p, a) ==
  /\ Running(p) /\ pc[p] = "run" /\ budget < MaxRun
  /\ budget' = budget + 1
  /\ IF a = EntryPoint
     THEN pc' = Upd(pc, p, "setup") /\ UNCHANGED <<afl_area, prev_loc>>
     ELSE afl_maybe_log(p, MainThread, a) /\ UNCHANGED pc
  /\ UNCHANGED <<afl_area_ptr, afl_fork_child, afl_forksrv_pid, afl_inst_rms, tmp,
                 failed_len, child_pid, status, fds, exit_code, exit_at,
                 kernVars, ctlVars, envVars, logVars, tslVars>>

\* afl_maybe_log(itb->pc) after afl_forkserver has returned
LogEntry(p) ==
  /\ Running(p) /\ pc[p] = "log_entry"
  /\ afl_maybe_log(p, MainThread, EntryPoint)
  /\ pc' = Upd(pc, p, "run")
  /\ UNCHANGED <<afl_area_ptr, afl_fork_child, afl_forksrv_pid, afl_inst_rms, tmp,
                 failed_len, child_pid, status, fds, exit_code, exit_at, budget,
                 kernVars, ctlVars, envVars, logVars, tslVars>>

\* the target program ends: exit(0)
TargetExit(p) ==
  /\ Running(p) /\ pc[p] = "run"
  /\ Terminate(p, 0)
  /\ UNCHANGED <<afl_area_ptr, afl_fork_child, afl_forksrv_pid, afl_inst_rms,
                 prev_loc, tmp, failed_len, child_pid, status, budget, afl_area,
                 ppid, nforks, ctlVars, envVars, logVars, tslVars>>

\* the controller kills a child it was told about (its timeout)
Kill(p) ==
  /\ Running(p) /\ p # Root
  /\ pc' = Upd(pc, p, "exited")
  /\ exit_at' = Upd(exit_at, p, "signal")
  /\ fds' = Upd(fds, p, {})
  /\ pstate' = Upd(pstate, p, "zombie")
  /\ wstatus' = Upd(wstatus, p, WKilled)
  /\ UNCHANGED <<afl_area_ptr, afl_fork_child, afl_forksrv_pid, afl_inst_rms,
                 prev_loc, tmp, failed_len, child_pid, status, exit_code, budget,
                 afl_area, ppid, nforks, ctlVars, envVars, logVars, tslVars>>

(* -------------------------- afl_request_tsl --------------------------- *)

TslMsgs == [pc : Addrs, cs_base : {0}, flags : {0}]

\* write(TSL_FD, &t, sizeof(struct afl_tsl)) by process p
TslWriteResults(p) == IF TSL_FD \in fds[p] THEN TslWriteOutcomes ELSE {-1}

\* afl_request_tsl without the test of afl_fork_child
afl_request_tsl_NoGuard(p, m) ==
  /\ Running(p) /\ pc[p] = "run" /\ budget < MaxRun
  /\ budget' = budget + 1
  /\ tsl_writes' = tsl_writes + 1
  /\ \E n \in TslWriteResults(p) :
       tsl_chan' = IF n = TslSize THEN Append(tsl_chan, m) ELSE tsl_chan
  /\ UNCHANGED <<pc, afl_area_ptr, afl_fork_child, afl_forksrv_pid, afl_inst_rms,
                 prev_loc, tmp, failed_len, child_pid, status, fds, exit_code,
                 exit_at, afl_area, kernVars, ctlVars, envVars, logVars,
                 tsl_fd, t, tsl_rx, tb_gen>>

afl_request_tsl(p, m) ==
  /\ Running(p) /\ pc[p] = "run" /\ budget < MaxRun
  /\ budget' = budget + 1
  /\ IF afl_fork_child[p] = 0
     THEN UNCHANGED <<tsl_chan, tsl_writes>>
     ELSE /\ tsl_writes' = tsl_writes + 1
          /\ \E n \in TslWriteResults(p) :
               tsl_chan' = IF n = TslSize THEN Append(tsl_chan, m) ELSE tsl_chan
  /\ UNCHANGED <<pc, afl_area_ptr, afl_fork_child, afl_forksrv_pid, afl_inst_rms,
                 prev_loc, tmp, failed_len, child_pid, status, fds, exit_code,
                 exit_at, afl_area, kernVars, ctlVars, envVars, logVars,
                 tsl_fd, t, tsl_rx, tb_gen>>

(* --------------------------- afl_forkserver --------------------------- *)

\* FsEnter without the test of afl_area_ptr
FsEnter_NoCheck(p) ==
  /\ Running(p) /\ pc[p] = "forkserver"
  /\ pc' = Upd(pc, p, "handshake")
  /\ UNCHANGED <<afl_area_ptr, afl_fork_child, afl_forksrv_pid, afl_inst_rms,
                 prev_loc, tmp, failed_len, child_pid, status, fds, exit_code,
                 exit_at, budget, afl_area, kernVars, ctlVars, envVars, logVars, tslVars>>

\* if (!afl_area_ptr) return;
FsEnter(p) ==
  /\ Running(p) /\ pc[p] = "forkserver"
  /\ pc' = Upd(pc, p, IF afl_area_ptr[p] = NULL THEN "log_entry" ELSE "handshake")
  /\ UNCHANGED <<afl_area_ptr, afl_fork_child, afl_forksrv_pid, afl_inst_rms,
                 prev_loc, tmp, failed_len, child_pid, status, fds, exit_code,
                 exit_at, budget, afl_area, kernVars, ctlVars, envVars, logVars, tslVars>>

\* if (write(FORKSRV_FD + 1, tmp, 4) != 4) return; afl_forksrv_pid = getpid();
FsHandshake(p) ==
  /\ Running(p) /\ pc[p] = "handshake"
  /\ \E n \in WriteResults(p, FORKSRV_FD + 1) :
       /\ ctl_out' = Deliver(ctl_out, p, "hello", tmp[p], n)
       /\ IF n # 4
          THEN pc' = Upd(pc, p, "log_entry") /\ UNCHANGED afl_forksrv_pid
          ELSE /\ pc' = Upd(pc, p, "wait_go")
               /\ afl_forksrv_pid' = Upd(afl_forksrv_pid, p, p)
  /\ UNCHANGED <<afl_area_ptr, afl_fork_child, afl_inst_rms, prev_loc, tmp,
                 failed_len, child_pid, status, fds, exit_code, exit_at, budget,
                 afl_area, kernVars, pipe_in, ctl_closed, envVars, logVars, tslVars>>

\* FsWaitGo that leaves with exit(0) when the controller is gone
FsWaitGo_ExitZero(p) ==
  /\ Running(p) /\ pc[p] = "wait_go"
  /\ \E n \in ReadResults(p) :
       /\ failed_len' = Upd(failed_len, p, n)
       /\ pipe_in' = IF n > 0 THEN pipe_in - n ELSE pipe_in
       /\ tmp' = IF n > 0 THEN Upd(tmp, p, IF n = 4 THEN "go" ELSE "part") ELSE tmp
       /\ IF n # 4
          THEN Terminate(p, 0)
          ELSE /\ pc' = Upd(pc, p, "fork")
               /\ UNCHANGED <<exit_code, exit_at, fds, pstate, wstatus>>
  /\ UNCHANGED <<afl_area_ptr, afl_fork_child, afl_forksrv_pid, afl_inst_rms,
                 prev_loc, child_pid, status, budget, afl_area, ppid, nforks,
                 ctl_closed, ctl_out, envVars, logVars, tslVars>>

\* FsWaitGo without the exit: a short or failed go read is taken for a go
FsWaitGo_NoExit(p) ==
  /\ Running(p) /\ pc[p] = "wait_go"
  /\ \E n \in ReadResults(p) :
       /\ failed_len' = Upd(failed_len, p, n)
       /\ pipe_in' = IF n > 0 THEN pipe_in - n ELSE pipe_in
       /\ tmp' = IF n > 0 THEN Upd(tmp, p, IF n = 4 THEN "go" ELSE "part") ELSE tmp
       /\ pc' = Upd(pc, p, "fork")
  /\ UNCHANGED <<afl_area_ptr, afl_fork_child, afl_forksrv_pid, afl_inst_rms,
                 prev_loc, child_pid, status, budget, afl_area, ppid, nforks,
                 ctl_closed, ctl_out, envVars, logVars, tslVars, exit_code, exit_at, fds,
                 pstate, wstatus>>

\* failed_len = read(FORKSRV_FD, tmp, 4); if (failed_len != 4) exit(2);
FsWaitGo(p) ==
  /\ Running(p) /\ pc[p] = "wait_go"
  /\ \E n \in ReadResults(p) :
       /\ failed_len' = Upd(failed_len, p, n)
       /\ pipe_in' = IF n > 0 THEN pipe_in - n ELSE pipe_in
       /\ tmp' = IF n > 0 THEN Upd(tmp, p, IF n = 4 THEN "go" ELSE "part") ELSE tmp
       /\ IF n # 4
          THEN Terminate(p, EXIT_PARENT_DEAD)
          ELSE /\ pc' = Upd(pc, p, "fork")
               /\ UNCHANGED <<exit_code, exit_at, fds, pstate, wstatus>>
  /\ UNCHANGED <<afl_area_ptr, afl_fork_child, afl_forksrv_pid, afl_inst_rms,
                 prev_loc, child_pid, status, budget, afl_area, ppid, nforks,
                 ctl_closed, ctl_out, envVars, logVars, tslVars>>

\* the pid the kernel gives the next child
NextPid == Root + nforks + 1

\* child_pid = fork(); if (child_pid < 0) exit(4);
\* the child starts as a copy of the parent, with fork() returning 0
FsFork(p) ==
  /\ Running(p) /\ pc[p] = "fork"
  /\ \/ /\ nforks < MaxFork
        /\ LET c == NextPid IN
           /\ pc' = [pc EXCEPT ![p] = "write_pid", ![c] = "in_child"]
           /\ child_pid' = [child_pid EXCEPT ![p] = c, ![c] = 0]
           /\ afl_area_ptr' = Upd(afl_area_ptr, c, afl_area_ptr[p])
           /\ afl_fork_child' = Upd(afl_fork_child, c, afl_fork_child[p])
           /\ afl_forksrv_pid' = Upd(afl_forksrv_pid, c, afl_forksrv_pid[p])
           /\ afl_inst_rms' = Upd(afl_inst_rms, c, afl_inst_rms[p])
           /\ prev_loc' = Upd(prev_loc, c, prev_loc[p])
           /\ tmp' = Upd(tmp, c, tmp[p])
           /\ failed_len' = Upd(failed_len, c, failed_len[p])
           /\ status' = Upd(status, c, status[p])
           /\ fds' = Upd(fds, c, fds[p])
           /\ pstate' = Upd(pstate, c, "running")
           /\ ppid' = Upd(ppid, c, p)
           /\ nforks' = nforks + 1
           /\ UNCHANGED <<exit_code, exit_at, wstatus>>
     \/ /\ child_pid' = Upd(child_pid, p, -1)
        /\ Terminate(p, EXIT_FORK)
        /\ UNCHANGED <<afl_area_ptr, afl_fork_child, afl_forksrv_pid, afl_inst_rms,
                       prev_loc, tmp, failed_len, status, ppid, nforks>>
  /\ UNCHANGED <<budget, afl_area, ctlVars, envVars, logVars, tslVars>>

\* FsInChild that leaves the controller's descriptors open
FsInChild_KeepFds(p) ==
  /\ Running(p) /\ pc[p] = "in_child"
  /\ afl_fork_child' = Upd(afl_fork_child, p, 1)
  /\ pc' = Upd(pc, p, "log_entry")
  /\ UNCHANGED <<afl_area_ptr, afl_forksrv_pid, afl_inst_rms, prev_loc, tmp,
                 failed_len, child_pid, status, fds, exit_code, exit_at, budget,
                 afl_area, kernVars, ctlVars, envVars, logVars, tslVars>>

\* the child's branch: afl_fork_child = 1; close(FORKSRV_FD);
\* close(FORKSRV_FD + 1); return;
FsInChild(p) ==
  /\ Running(p) /\ pc[p] = "in_child"
  /\ afl_fork_child' = Upd(afl_fork_child, p, 1)
  /\ fds' = Upd(fds, p, fds[p] \ {FORKSRV_FD, FORKSRV_FD + 1})
  /\ pc' = Upd(pc, p, "log_entry")
  /\ UNCHANGED <<afl_area_ptr, afl_forksrv_pid, afl_inst_rms, prev_loc, tmp,
                 failed_len, child_pid, status, exit_code, exit_at, budget,
                 afl_area, kernVars, ctlVars, envVars, logVars, tslVars>>

\* FsWritePid that ends a short pid write with the code of a failed fork
FsWritePid_ForkCode(p) ==
  /\ Running(p) /\ pc[p] = "write_pid"
  /\ \E n \in WriteResults(p, FORKSRV_FD + 1) :
       /\ ctl_out' = Deliver(ctl_out, p, "pid", child_pid[p], n)
       /\ IF n # 4
          THEN Terminate(p, EXIT_FORK)
          ELSE /\ pc' = Upd(pc, p, "waitpid")
               /\ UNCHANGED <<exit_code, exit_at, fds, pstate, wstatus>>
  /\ UNCHANGED <<afl_area_ptr, afl_fork_child, afl_forksrv_pid, afl_inst_rms,
                 prev_loc, tmp, failed_len, child_pid, status, budget, afl_area,
                 ppid, nforks, pipe_in, ctl_closed, envVars, logVars, tslVars>>

\* if (write(FORKSRV_FD + 1, &child_pid, 4) != 4) exit(5);
\* (the call of afl_wait_tsl that followed is commented out)
FsWritePid(p) ==
  /\ Running(p) /\ pc[p] = "write_pid"
  /\ \E n \in WriteResults(p, FORKSRV_FD + 1) :
       /\ ctl_out' = Deliver(ctl_out, p, "pid", child_pid[p], n)
       /\ IF n # 4
          THEN Terminate(p, EXIT_WRITE_PID)
          ELSE /\ pc' = Upd(pc, p, "waitpid")
               /\ UNCHANGED <<exit_code, exit_at, fds, pstate, wstatus>>
  /\ UNCHANGED <<afl_area_ptr, afl_fork_child, afl_forksrv_pid, afl_inst_rms,
                 prev_loc, tmp, failed_len, child_pid, status, budget, afl_area,
                 ppid, nforks, pipe_in, ctl_closed, envVars, logVars, tslVars>>

\* FsWaitPid that does not block: it goes on while the child still runs,
\* with status left as it was
FsWaitPid_NoBlock(p) ==
  /\ Running(p) /\ pc[p] = "waitpid"
  /\ pc' = Upd(pc, p, "write_status")
  /\ UNCHANGED <<afl_area_ptr, afl_fork_child, afl_forksrv_pid, afl_inst_rms,
                 prev_loc, tmp, failed_len, child_pid, status, fds, exit_code,
                 exit_at, budget, afl_area, kernVars, ctlVars, envVars, logVars, tslVars>>

\* if (waitpid(child_pid, &status, 0) < 0) exit(6);
\* waitpid blocks until the child has terminated, or fails; a child that has
\* been waited for is gone, and its copy of the shim's memory with it
FsWaitPid(p) ==
  /\ Running(p) /\ pc[p] = "waitpid"
  /\ \/ /\ child_pid[p] \in Procs
        /\ ppid[child_pid[p]] = p
        /\ pstate[child_pid[p]] = "zombie"
        /\ LET c == child_pid[p] IN
           /\ status' = [status EXCEPT ![p] = wstatus[c], ![c] = 0]
           /\ pstate' = Upd(pstate, c, "reaped")
           /\ pc' = Upd(pc, p, "write_status")
           /\ afl_area_ptr' = Upd(afl_area_ptr, c, NULL)
           /\ afl_fork_child' = Upd(afl_fork_child, c, 0)
           /\ afl_forksrv_pid' = Upd(afl_forksrv_pid, c, 0)
           /\ afl_inst_rms' = Upd(afl_inst_rms, c, MAP_SIZE)
           /\ prev_loc' = Upd(prev_loc, c, [th \in Threads |-> 0])
           /\ tmp' = Upd(tmp, c, TOKEN)
           /\ failed_len' = Upd(failed_len, c, 0)
           /\ child_pid' = Upd(child_pid, c, 0)
        /\ UNCHANGED <<exit_code, exit_at, fds, wstatus>>
     \/ /\ Terminate(p, EXIT_WAITPID)
        /\ UNCHANGED <<status, afl_area_ptr, afl_fork_child, afl_forksrv_pid,
                       afl_inst_rms, prev_loc, tmp, failed_len, child_pid>>
  /\ UNCHANGED <<budget, afl_area, ppid, nforks, ctlVars, envVars, logVars, tslVars>>

\* if (write(FORKSRV_FD + 1, &status, 4) != 4) exit(7);
FsWriteStatus(p) ==
  /\ Running(p) /\ pc[p] = "write_status"
  /\ \E n \in WriteResults(p, FORKSRV_FD + 1) :
       /\ ctl_out' = Deliver(ctl_out, p, "status", status[p], n)
       /\ IF n # 4
          THEN Terminate(p, EXIT_WRITE_STATUS)
          ELSE /\ pc' = Upd(pc, p, "sleep")
               /\ UNCHANGED <<exit_code, exit_at, fds, pstate, wstatus>>
  /\ UNCHANGED <<afl_area_ptr, afl_fork_child, afl_forksrv_pid, afl_inst_rms,
                 prev_loc, tmp, failed_len, child_pid, status, budget, afl_area,
                 ppid, nforks, pipe_in, ctl_closed, envVars, logVars, tslVars>>

\* FsSleep that ends the process after one iteration (the exit(0) that is
\* commented out in front of the sleep)
FsSleep_ExitZero(p) ==
  /\ Running(p) /\ pc[p] = "sleep"
  /\ Terminate(p, 0)
  /\ UNCHANGED <<afl_area_ptr, afl_fork_child, afl_forksrv_pid, afl_inst_rms,
                 prev_loc, tmp, failed_len, child_pid, status, budget, afl_area,
                 ppid, nforks, ctlVars, envVars, tslVars, logVars>>

\* sleep(5); and around the loop
FsSleep(p) ==
  /\ Running(p) /\ pc[p] = "sleep"
  /\ pc' = Upd(pc, p, "wait_go")
  /\ UNCHANGED <<afl_area_ptr, afl_fork_child, afl_forksrv_pid, afl_inst_rms,
                 prev_loc, tmp, failed_len, child_pid, status, fds, exit_code,
                 exit_at, budget, afl_area, kernVars, ctlVars, envVars, logVars, tslVars>>

(* --------------------------- the controller --------------------------- *)

\* the controller writes k bytes to the go pipe: a go message, or part of one;
\* it sends the next go only when the last one has been taken
CtlSend(k) ==
  /\ ~ctl_closed
  /\ pipe_in + k <= 4
  /\ pipe_in' = pipe_in + k
  /\ UNCHANGED <<procVars, afl_area, kernVars, ctl_closed, ctl_out, envVars, logVars, tslVars>>

\* the controller exits, closing both pipes
CtlClose ==
  /\ ~ctl_closed
  /\ ctl_closed' = TRUE
  /\ UNCHANGED <<procVars, afl_area, kernVars, pipe_in, ctl_out, envVars, logVars, tslVars>>

(* ---------------------------- afl_wait_tsl ---------------------------- *)

\* some process still holds the write side of the relay channel
TslWriters == \E q \in Procs : pstate[q] = "running" /\ TSL_FD \in fds[q]

\* read(fd, &t, sizeof(struct afl_tsl)): what it may return now
TslReadResults ==
  IF tsl_fd # "open" THEN {-1}
  ELSE {-1} \cup (IF tsl_chan # <<>> THEN {TslSize}
                  ELSE IF ~TslWriters THEN {0} ELSE {})

\* one turn of the loop: a read that is not a whole record leaves the loop;
\* a whole record is dropped (the lookup and tb_gen_code are commented out)
TslRead(p) ==
  /\ Running(p) /\ pc[p] = "tsl_read"
  /\ \E n \in TslReadResults :
       IF n = TslSize
       THEN /\ t' = Head(tsl_chan)
            /\ tsl_chan' = Tail(tsl_chan)
            /\ tsl_rx' = Append(tsl_rx, Head(tsl_chan))
            /\ UNCHANGED pc
       ELSE /\ pc' = Upd(pc, p, "tsl_close")
            /\ UNCHANGED <<t, tsl_chan, tsl_rx>>
  /\ UNCHANGED <<afl_area_ptr, afl_fork_child, afl_forksrv_pid, afl_inst_rms,
                 prev_loc, tmp, failed_len, child_pid, status, fds, exit_code,
                 exit_at, budget, afl_area, kernVars, ctlVars, envVars, logVars,
                 tsl_writes, tsl_fd, tb_gen>>

\* close(fd); and back to the caller
TslClose(p) ==
  /\ Running(p) /\ pc[p] = "tsl_close"
  /\ tsl_fd' = "closed"
  /\ pc' = Upd(pc, p, "tsl_ret")
  /\ UNCHANGED <<afl_area_ptr, afl_fork_child, afl_forksrv_pid, afl_inst_rms,
                 prev_loc, tmp, failed_len, child_pid, status, fds, exit_code,
                 exit_at, budget, afl_area, kernVars, ctlVars, envVars, logVars,
                 tsl_chan, tsl_writes, t, tsl_rx, tb_gen>>

(* --------------------------- specifications --------------------------- *)

Next ==
  \/ \E p \in Procs, a \in Addrs : ExecBlock(p, a)
  \/ \E p \in Procs : LogEntry(p)
  \/ \E p \in Procs : TargetExit(p)
  \/ \E p \in Procs : Kill(p)
  \/ \E p \in Procs, m \in TslMsgs : afl_request_tsl(p, m)
  \/ \E p \in Procs : afl_setup(p)
  \/ \E p \in Procs : FsEnter(p)
  \/ \E p \in Procs : FsHandshake(p)
  \/ \E p \in Procs : FsWaitGo(p)
  \/ \E p \in Procs : FsFork(p)
  \/ \E p \in Procs : FsInChild(p)
  \/ \E p \in Procs : FsWritePid(p)
  \/ \E p \in Procs : FsWaitPid(p)
  \/ \E p \in Procs : FsWriteStatus(p)
  \/ \E p \in Procs : FsSleep(p)
  \/ \E k \in {2, 4} : CtlSend(k)
  \/ CtlClose

Spec == Init /\ [][Next]_vars

\* afl_wait_tsl on its own.  afl_forkserver no longer calls it (the call and
\* the pipe()/dup2() that made the channel are commented out), so it is run
\* here as the parent would run it after the pid write: on the read side of a
\* channel whose write side is the TSL_FD of one forked child.
Child1 == Root + 1

InitRelay ==
  /\ pc = [p \in Procs |-> IF p = Root THEN "tsl_read"
                           ELSE IF p = Child1 THEN "run" ELSE "unborn"]
  /\ afl_area_ptr = [p \in Procs |-> IF p \in {Root, Child1} THEN SHM ELSE NULL]
  /\ afl_fork_child = [p \in Procs |-> IF p = Child1 THEN 1 ELSE 0]
  /\ afl_forksrv_pid = [p \in Procs |-> IF p \in {Root, Child1} THEN Root ELSE 0]
  /\ afl_inst_rms = [p \in Procs |-> MAP_SIZE]
  /\ prev_loc = [p \in Procs |-> [th \in Threads |-> 0]]
  /\ tmp = [p \in Procs |-> IF p \in {Root, Child1} THEN "go" ELSE TOKEN]
  /\ failed_len = [p \in Procs |-> IF p \in {Root, Child1} THEN 4 ELSE 0]
  /\ child_pid = [p \in Procs |-> IF p = Root THEN Child1 ELSE 0]
  /\ status = [p \in Procs |-> 0]
  /\ fds = [p \in Procs |-> IF p = Root THEN {FORKSRV_FD, FORKSRV_FD + 1}
                            ELSE IF p = Child1 THEN {TSL_FD} ELSE {}]
  /\ exit_code = [p \in Procs |-> -1]
  /\ exit_at = [p \in Procs |-> "none"]
  /\ budget = 0
  /\ pstate = [p \in Procs |-> IF p \in {Root, Child1} THEN "running" ELSE "unborn"]
  /\ wstatus = [p \in Procs |-> 0]
  /\ ppid = [p \in Procs |-> IF p = Child1 THEN Root ELSE 0]
  /\ nforks = 1
  /\ afl_area = [i \in {} |-> 0]
  /\ id_str = "shmid"
  /\ inst_r = RatioUnset
  /\ pipe_in = 0
  /\ ctl_closed = FALSE
  /\ ctl_out = <<[by |-> Root, kind |-> "hello", val |-> TOKEN, len |-> 4],
                 [by |-> Root, kind |-> "pid", val |-> Child1, len |-> 4]>>
  /\ tsl_chan = <<>>
  /\ tsl_writes = 0
  /\ tsl_fd = "open"
  /\ t = [pc |-> 0, cs_base |-> 0, flags |-> 0]
  /\ tsl_rx = <<>>
  /\ tb_gen = <<>>
  /\ InitCalls

NextRelay ==
  \/ \E m \in TslMsgs : afl_request_tsl(Child1, m)
  \/ TargetExit(Child1)
  \/ Kill(Child1)
  \/ TslRead(Root)
  \/ TslClose(Root)

SpecRelay == InitRelay /\ [][NextRelay]_vars

\* the afl_maybe_log(itb->pc) of AFL_QEMU_CPU_SNIPPET2 on thread th, with the
\* call noted: who called, for which block, and the slot it counted (-1 when
\* it counted none)
LogBlock(p, th, a) ==
  /\ Running(p) /\ pc[p] = "run" /\ tpc[p][th] = "idle"
  /\ afl_maybe_log(p, th, a)
  /\ calls' = Append(calls, [by |-> p, th |-> th, loc |-> a,
                             idx |-> IF Records(p, a) THEN EdgeSlot(p, th, a) ELSE -1])
  /\ UNCHANGED <<pc, afl_area_ptr, afl_fork_child, afl_forksrv_pid, afl_inst_rms,
                 tmp, failed_len, child_pid, status, fds, exit_code, exit_at,
                 budget, kernVars, ctlVars, envVars, tslVars, tpc, scr_loc, reg,
                 area0>>

\* afl_maybe_log as the threads of one process run it side by side.  The
\* increment afl_area_ptr[cur_loc ^ prev_loc]++ is a load and a store of a
\* plain byte, and another thread may run between the two.
\* First half, up to the load: the test of afl_area_ptr, the scrambling, the
\* test against afl_inst_rms, and the load of the counter.
LogLoad(p, th, a) ==
  /\ Running(p) /\ pc[p] = "run" /\ tpc[p][th] = "idle"
  /\ IF Records(p, a)
     THEN /\ scr_loc' = [scr_loc EXCEPT ![p][th] = Scramble(a)]
          /\ reg' = [reg EXCEPT ![p][th] = [at |-> EdgeSlot(p, th, a),
                                            val |-> Slot(afl_area, EdgeSlot(p, th, a))]]
          /\ tpc' = [tpc EXCEPT ![p][th] = "store"]
          /\ calls' = Append(calls, [by |-> p, th |-> th, loc |-> a,
                                     idx |-> EdgeSlot(p, th, a)])
     ELSE /\ calls' = Append(calls, [by |-> p, th |-> th, loc |-> a, idx |-> -1])
          /\ UNCHANGED <<scr_loc, reg, tpc>>
  /\ UNCHANGED <<procVars, afl_area, kernVars, ctlVars, envVars, tslVars, area0>>

\* LogStore with one prev_loc for all threads (static, without __thread)
LogStore_SharedPrevLoc(p, th) ==
  /\ Running(p) /\ pc[p] = "run" /\ tpc[p][th] = "store"
  /\ afl_area' = Store(afl_area, reg[p][th].at, (reg[p][th].val + 1) % 256)
  /\ prev_loc' = [prev_loc EXCEPT ![p] = [u \in Threads |-> scr_loc[p][th] \div 2]]
  /\ tpc' = [tpc EXCEPT ![p][th] = "idle"]
  /\ UNCHANGED <<pc, afl_area_ptr, afl_fork_child, afl_forksrv_pid, afl_inst_rms,
                 tmp, failed_len, child_pid, status, fds, exit_code, exit_at,
                 budget, kernVars, ctlVars, envVars, tslVars, scr_loc, reg, calls,
                 area0>>

\* Second half: the store of the counter, and prev_loc = cur_loc >> 1
LogStore(p, th) ==
  /\ Running(p) /\ pc[p] = "run" /\ tpc[p][th] = "store"
  /\ afl_area' = Store(afl_area, reg[p][th].at, (reg[p][th].val + 1) % 256)
  /\ prev_loc' = [prev_loc EXCEPT ![p][th] = scr_loc[p][th] \div 2]
  /\ tpc' = [tpc EXCEPT ![p][th] = "idle"]
  /\ UNCHANGED <<pc, afl_area_ptr, afl_fork_child, afl_forksrv_pid, afl_inst_rms,
                 tmp, failed_len, child_pid, status, fds, exit_code, exit_at,
                 budget, kernVars, ctlVars, envVars, tslVars, scr_loc, reg, calls,
                 area0>>

\* a process started without a controller, as afl_setup and the declined
\* afl_forkserver leave it: the rate set from AFL_INST_RATIO, the bitmap
\* attached when the environment names one (and slot 0 touched when a ratio
\* is given), nothing logged yet
InitAfterSetup ==
  /\ id_str \in {NoEnv, "shmid"}
  /\ inst_r \in RatioInputsWide
  /\ pc = [p \in Procs |-> IF p = Root THEN "run" ELSE "unborn"]
  /\ afl_area_ptr = [p \in Procs |-> IF p = Root /\ id_str # NoEnv THEN SHM ELSE NULL]
  /\ afl_fork_child = [p \in Procs |-> 0]
  /\ afl_forksrv_pid = [p \in Procs |-> 0]
  /\ afl_inst_rms = [p \in Procs |-> IF p = Root THEN SetupRms(MAP_SIZE) ELSE MAP_SIZE]
  /\ prev_loc = [p \in Procs |-> [th \in Threads |-> 0]]
  /\ tmp = [p \in Procs |-> TOKEN]
  /\ failed_len = [p \in Procs |-> 0]
  /\ child_pid = [p \in Procs |-> 0]
  /\ status = [p \in Procs |-> 0]
  /\ fds = [p \in Procs |-> {}]
  /\ exit_code = [p \in Procs |-> -1]
  /\ exit_at = [p \in Procs |-> "none"]
  /\ budget = 1
  /\ pstate = [p \in Procs |-> IF p = Root THEN "running" ELSE "unborn"]
  /\ wstatus = [p \in Procs |-> 0]
  /\ ppid = [p \in Procs |-> 0]
  /\ nforks = 0
  /\ afl_area = IF id_str # NoEnv /\ inst_r.set
                THEN Store([i \in {} |-> 0], 0, 1) ELSE [i \in {} |-> 0]
  /\ pipe_in = 0
  /\ ctl_closed = TRUE
  /\ ctl_out = <<>>
  /\ InitTsl
  /\ InitCalls

\* afl_maybe_log on its own: one thread of one process logs blocks
NextLog ==
  \E a \in LogAddrs : Len(calls) < MaxLog /\ LogBlock(Root, MainThread, a)

SpecLog == InitAfterSetup /\ [][NextLog]_vars

\* afl_setup time and again: a process whose controller never sends a go
\* message comes to its entry point repeatedly, under any AFL_INST_RATIO
InitSetup ==
  /\ InitProcs
  /\ InitTsl
  /\ InitCalls
  /\ \E f \in InitFds : fds = [p \in Procs |-> IF p = Root THEN f ELSE {}]
  /\ id_str \in {NoEnv, "shmid"}
  /\ inst_r \in RatioInputsWide
  /\ pipe_in = 0
  /\ ctl_closed = FALSE
  /\ ctl_out = <<>>

NextSetup ==
  \/ ExecBlock(Root, EntryPoint)
  \/ afl_setup(Root)
  \/ FsEnter(Root)
  \/ FsHandshake(Root)
  \/ LogEntry(Root)

SpecSetup == InitSetup /\ [][NextSetup]_vars

\* the threads of one process, with the bitmap attached, log blocks side by side
InitThreads ==
  /\ InitAfterSetup
  /\ id_str # NoEnv
  /\ inst_r \in InstRatioInputs

NextThreads ==
  \/ \E th \in Threads, a \in Addrs : Len(calls) < MaxLog /\ LogLoad(Root, th, a)
  \/ \E th \in Threads : LogStore(Root, th)

SpecThreads == InitThreads /\ [][NextThreads]_vars

\* the fork server's loop with its processes scheduled fairly.  It starts
\* where the handshake has succeeded: the token sent, the bitmap attached, the
\* original process waiting for its first go message.
InitLoop ==
  /\ InitTsl
  /\ id_str = "shmid"
  /\ inst_r \in InstRatioInputs
  /\ \E f \in InitFds : fds = [p \in Procs |-> IF p = Root THEN f ELSE {}]
  /\ pc = [p \in Procs |-> IF p = Root THEN "wait_go" ELSE "unborn"]
  /\ afl_area_ptr = [p \in Procs |-> IF p = Root THEN SHM ELSE NULL]
  /\ afl_fork_child = [p \in Procs |-> 0]
  /\ afl_forksrv_pid = [p \in Procs |-> IF p = Root THEN Root ELSE 0]
  /\ afl_inst_rms = [p \in Procs |-> IF p = Root THEN SetupRms(MAP_SIZE) ELSE MAP_SIZE]
  /\ prev_loc = [p \in Procs |-> [th \in Threads |-> 0]]
  /\ tmp = [p \in Procs |-> TOKEN]
  /\ failed_len = [p \in Procs |-> 0]
  /\ child_pid = [p \in Procs |-> 0]
  /\ status = [p \in Procs |-> 0]
  /\ exit_code = [p \in Procs |-> -1]
  /\ exit_at = [p \in Procs |-> "none"]
  /\ budget = 1
  /\ pstate = [p \in Procs |-> IF p = Root THEN "running" ELSE "unborn"]
  /\ wstatus = [p \in Procs |-> 0]
  /\ ppid = [p \in Procs |-> 0]
  /\ nforks = 0
  /\ afl_area = IF inst_r.set THEN Store([i \in {} |-> 0], 0, 1) ELSE [i \in {} |-> 0]
  /\ pipe_in = 0
  /\ ctl_closed = FALSE
  /\ ctl_out = <<[by |-> Root, kind |-> "hello", val |-> TOKEN, len |-> 4]>>
  /\ InitCalls

NextLoop ==
  \/ FsWaitGo(Root)
  \/ FsFork(Root)
  \/ FsWritePid(Root)
  \/ FsWaitPid(Root)
  \/ FsWriteStatus(Root)
  \/ FsSleep(Root)
  \/ \E c \in Procs \ {Root} : FsInChild(c)
  \/ \E c \in Procs \ {Root} : LogEntry(c)
  \/ \E c \in Procs \ {Root}, a \in Addrs \ {EntryPoint} : ExecBlock(c, a)
  \/ \E c \in Procs \ {Root} : TargetExit(c)
  \/ \E c \in Procs \ {Root} : Kill(c)
  \/ \E k \in {2, 4} : CtlSend(k)
  \/ CtlClose

\* a process that can take a step takes one in the end: fork(), write(),
\* waitpid() and sleep() return.  No such thing is asked of the go read, which
\* may block for ever, nor of the controller.
LoopFairness ==
  /\ WF_vars(FsFork(Root))
  /\ WF_vars(FsWritePid(Root))
  /\ WF_vars(FsWaitPid(Root))
  /\ WF_vars(FsWriteStatus(Root))
  /\ WF_vars(FsSleep(Root))

\* every forked child ends in the end, by itself or killed by the controller
\* at its timeout
ChildrenEnd ==
  \A c \in Procs \ {Root} : WF_vars(TargetExit(c) \/ Kill(c))

SpecLive == InitLoop /\ [][NextLoop]_vars /\ LoopFairness /\ ChildrenEnd

\* a loop of the target: the same block, away from the entry point, over and over
LoopBlock == CHOOSE a \in Addrs : a # EntryPoint

NextWrap == Len(calls) < MaxHits /\ LogBlock(Root, MainThread, LoopBlock)

SpecWrap == InitAfterSetup /\ [][NextWrap]_vars

(* ------------------------------- claims ------------------------------- *)

\* the complete (4-byte) messages the controller has been sent, in order
Full(out) == SelectSeq(out, LAMBDA e : e.len = 4)

KindAt(i) == IF i = 1 THEN "hello" ELSE IF i % 2 = 0 THEN "pid" ELSE "status"

\* the token first, then pid and status messages in turn
MsgShape ==
  \A i \in 1 .. Len(Full(ctl_out)) :
    /\ Full(ctl_out)[i].kind = KindAt(i)
    /\ i = 1 => Full(ctl_out)[i].val = TOKEN

\* a process about to fork has read a whole go message, and the last complete
\* message it sent is the token or a status
ForkOnlyAfterGo ==
  \A p \in Procs :
    (Running(p) /\ pc[p] = "fork") =>
      /\ failed_len[p] = 4
      /\ Full(ctl_out) # <<>>
      /\ Full(ctl_out)[Len(Full(ctl_out))].kind \in {"hello", "status"}

\* the fork position is entered by a read of a whole go message and by nothing
\* else, and a fork happens nowhere else
ForkStepsFollowGo ==
  /\ \A p \in Procs :
       (pc'[p] = "fork" /\ pc[p] # "fork") =>
         (pc[p] = "wait_go" /\ failed_len'[p] = 4 /\ pipe_in' = pipe_in - 4)
  /\ nforks' # nforks => \E p \in Procs : pc[p] = "fork" /\ pc'[p] = "write_pid"

\* a fork server waiting with no whole go message in the pipe
Waiting(p) == Running(p) /\ pc[p] = "wait_go" /\ pipe_in < 4

\* as claimed: while it waits, no fork, no write and no exit
WaitingIsQuiet ==
  \A p \in Procs :
    Waiting(p) => (nforks' = nforks /\ ctl_out' = ctl_out /\ pc'[p] = "wait_go")

\* as amended: it leaves the wait only by an exit with the parent-dead code,
\* after a read that returned something other than 4
WaitingLeavesOnlyByFailedRead ==
  \A p \in Procs :
    Waiting(p) =>
      /\ nforks' = nforks /\ ctl_out' = ctl_out
      /\ \/ pc'[p] = "wait_go"
         \/ /\ pc'[p] = "exited"
            /\ failed_len'[p] # 4
            /\ exit_code'[p] = EXIT_PARENT_DEAD

\* C1 (as stated): the controller is sent the token once, then a pid and a
\* status message per iteration; a fork follows a whole go message read since
\* the handshake or the last status message; while no go message is available
\* the fork server does not fork, write or exit.
C1_AsStated ==
  /\ [](MsgShape /\ ForkOnlyAfterGo)
  /\ [][ForkStepsFollowGo /\ WaitingIsQuiet]_vars

\* C1 (amended): as C1, except that while no go message is available the fork
\* server may still exit, with the parent-dead code, when its read returns
\* without a whole message (pipe closed, part of a message, read error).
C1_MessageOrder ==
  /\ [](MsgShape /\ ForkOnlyAfterGo)
  /\ [][ForkStepsFollowGo /\ WaitingLeavesOnlyByFailedRead]_vars

\* two whole iterations have been reported and the fork server waits again
C1_Witness ==
  /\ Len(Full(ctl_out)) = 5
  /\ Waiting(Root)
  /\ ~ctl_closed

\* the positions of the fork server's loop
LoopPositions == {"wait_go", "fork", "write_pid", "waitpid", "write_status", "sleep"}

\* a process made by fork()
IsChild(p) == ppid[p] # 0

\* C2: the status message of an iteration is the wait status of the child
\* whose pid the same iteration wrote, and it is written only after waitpid on
\* that child has returned: the child has terminated and been waited for.
C2_StatusOfThatChild ==
  /\ \A i \in 1 .. Len(Full(ctl_out)) :
       Full(ctl_out)[i].kind = "status" =>
         /\ i > 1
         /\ Full(ctl_out)[i - 1].kind = "pid"
         /\ Full(ctl_out)[i - 1].val \in Procs
         /\ pstate[Full(ctl_out)[i - 1].val] = "reaped"
         /\ Full(ctl_out)[i].val = wstatus[Full(ctl_out)[i - 1].val]
  /\ \A p \in Procs :
       (Running(p) /\ pc[p] = "write_status") =>
         /\ child_pid[p] \in Procs
         /\ pstate[child_pid[p]] = "reaped"
         /\ status[p] = wstatus[child_pid[p]]
         /\ Full(ctl_out)[Len(Full(ctl_out))] =
              [by |-> p, kind |-> "pid", val |-> child_pid[p], len |-> 4]

\* two iterations whose children ended differently, each reported as it ended
C2_Witness ==
  /\ Len(Full(ctl_out)) = 5
  /\ Full(ctl_out)[3].val = WKilled
  /\ Full(ctl_out)[5].val = WExit(0)

\* a go read that returns anything but 4 ends the process then and there
GoReadFailureExits ==
  \A p \in Procs :
    (pc[p] = "wait_go" /\ pc'[p] # "wait_go" /\ exit_at'[p] # "signal") =>
      IF failed_len'[p] = 4
      THEN pc'[p] = "fork"
      ELSE /\ pc'[p] = "exited"
           /\ exit_code'[p] = EXIT_PARENT_DEAD
           /\ nforks' = nforks
           /\ ctl_out' = ctl_out
           /\ afl_area' = afl_area

\* a process that has terminated stays so, and sends the controller nothing
ExitedIsFinal ==
  \A p \in Procs :
    pc[p] = "exited" =>
      /\ pc'[p] = "exited"
      /\ ctl_out' # ctl_out => ctl_out'[Len(ctl_out')].by # p

\* C3: a go read that returns anything but 4 ends the fork server with the
\* parent-dead code, with no fork, no further message to the controller and
\* the bitmap left as it was.
C3_ParentDead ==
  /\ [](\A p \in Procs : exit_at[p] = "wait_go" =>
          (exit_code[p] = EXIT_PARENT_DEAD /\ failed_len[p] # 4))
  /\ [][GoReadFailureExits /\ ExitedIsFinal]_vars

\* the controller went away, the read returned 0, the bitmap holds coverage
C3_Witness ==
  /\ exit_at[Root] = "wait_go"
  /\ failed_len[Root] = 0
  /\ ctl_closed
  /\ afl_area # <<>>
  /\ nforks = 1

\* (a) with no bitmap the fork server returns before the handshake
DeclinesUnattached ==
  \A p \in Procs :
    (pc[p] = "forkserver" /\ afl_area_ptr[p] = NULL /\ pc'[p] # "forkserver"
       /\ exit_at'[p] # "signal") =>
      /\ pc'[p] = "log_entry"
      /\ pstate'[p] = "running"
      /\ ctl_out' = ctl_out /\ pipe_in' = pipe_in /\ nforks' = nforks

\* (b) the handshake either delivers the whole token and goes on to wait for
\* go, or returns to the caller
DeclinesOnShortHandshake ==
  \A p \in Procs :
    (pc[p] = "handshake" /\ pc'[p] # "handshake" /\ exit_at'[p] # "signal") =>
      \/ /\ pc'[p] = "wait_go"
         /\ ctl_out' = Append(ctl_out,
                         [by |-> p, kind |-> "hello", val |-> tmp[p], len |-> 4])
      \/ /\ pc'[p] = "log_entry"
         /\ pstate'[p] = "running"
         /\ Full(ctl_out') = Full(ctl_out)
         /\ pipe_in' = pipe_in /\ nforks' = nforks

\* C4: afl_forkserver returns to its caller, without terminating, reading a go
\* message or forking, (a) when the bitmap is unattached, and then without
\* attempting the handshake write, and (b) when the handshake write does not
\* return 4.
C4_Declines ==
  /\ [](\A p \in Procs :
          (Running(p) /\ pc[p] \in {"handshake"} \cup LoopPositions) =>
            afl_area_ptr[p] # NULL)
  /\ [][DeclinesUnattached /\ DeclinesOnShortHandshake]_vars

\* the handshake fell short, and the process runs on as an ordinary one
C4_Witness ==
  /\ pc[Root] = "run"
  /\ afl_area_ptr[Root] = SHM
  /\ Len(ctl_out) = 1 /\ ctl_out[1].kind = "hello" /\ ctl_out[1].len # 4
  /\ pipe_in = 4
  /\ nforks = 0

\* the condition each exit code of the shim stands for
CondOfCode(c) ==
  CASE c = EXIT_SHMAT -> "setup"
    [] c = EXIT_PARENT_DEAD -> "wait_go"
    [] c = EXIT_FORK -> "fork"
    [] c = EXIT_WRITE_PID -> "write_pid"
    [] c = EXIT_WAITPID -> "waitpid"
    [] c = EXIT_WRITE_STATUS -> "write_status"
    [] OTHER -> "none"

ShimPositions == {"setup", "wait_go", "fork", "write_pid", "waitpid", "write_status"}

\* the exit code of a process the shim terminated names the one condition
ExitCodeNamesCondition ==
  \A p \in Procs :
    exit_at[p] \in ShimPositions => CondOfCode(exit_code[p]) = exit_at[p]

\* a step of the loop goes on only when its call succeeded; otherwise the
\* process ends at once and no whole message follows
LoopStepOrExit ==
  \A p \in Procs :
    (pc[p] \in LoopPositions /\ pc'[p] # pc[p] /\ exit_at'[p] # "signal") =>
      \/ /\ pc'[p] = "exited"
         /\ exit_at'[p] = pc[p]
         /\ Full(ctl_out') = Full(ctl_out)
      \/ pc[p] = "wait_go" /\ pc'[p] = "fork" /\ failed_len'[p] = 4
      \/ pc[p] = "fork" /\ pc'[p] = "write_pid" /\ child_pid'[p] > 0
      \/ /\ pc[p] = "write_pid" /\ pc'[p] = "waitpid"
         /\ Len(Full(ctl_out')) = Len(Full(ctl_out)) + 1
      \/ /\ pc[p] = "waitpid" /\ pc'[p] = "write_status"
         /\ pstate'[child_pid[p]] = "reaped"
      \/ /\ pc[p] = "write_status" /\ pc'[p] = "sleep"
         /\ Len(Full(ctl_out')) = Len(Full(ctl_out)) + 1
      \/ pc[p] = "sleep" /\ pc'[p] = "wait_go"

\* C5: after the handshake, a short go read, a failed fork, a short pid write,
\* a failed waitpid and a short status write each end the process at once, with
\* no further message, and their exit codes and that of the failed attach in
\* afl_setup are pairwise distinct.
C5_FatalFast ==
  /\ []ExitCodeNamesCondition
  /\ [][LoopStepOrExit /\ ExitedIsFinal]_vars

\* the fork server ended on a failed waitpid while its child had ended on a
\* failed attach: two of the conditions, two codes
C5_Witness ==
  /\ exit_at[Root] = "waitpid" /\ exit_code[Root] = EXIT_WAITPID
  /\ \E c \in Procs : IsChild(c) /\ exit_at[c] = "setup" /\ exit_code[c] = EXIT_SHMAT

\* C6: a forked child that is past its branch of afl_forkserver has its
\* fork-child flag set and both of the controller's descriptors closed; no
\* message to the controller comes from a child and no child reads a go message.
C6_ChildDetached ==
  /\ \A p \in Procs :
       (IsChild(p) /\ Running(p) /\ pc[p] # "in_child") =>
         /\ afl_fork_child[p] = 1
         /\ FORKSRV_FD \notin fds[p]
         /\ (FORKSRV_FD + 1) \notin fds[p]
         /\ pc[p] \notin LoopPositions
  /\ \A i \in 1 .. Len(ctl_out) : ~IsChild(ctl_out[i].by)

\* a child that came to the entry point again and is about to try the handshake
C6_Witness ==
  \E c \in Procs :
    /\ IsChild(c) /\ Running(c) /\ pc[c] = "handshake"
    /\ afl_fork_child[c] = 1
    /\ ~ctl_closed

\* C7 (as stated): in each iteration the parent writes the pid, then drains the
\* relay channel until the child exits or closes its end, and only then waits
\* for the child: after the pid write it enters afl_wait_tsl, and it enters the
\* wait from the end of afl_wait_tsl.
C7_DrainBeforeWait ==
  [][\A p \in Procs :
       /\ (pc[p] = "write_pid" /\ pc'[p] \notin {"write_pid", "exited"}) =>
            pc'[p] = "tsl_read"
       /\ (pc'[p] = "waitpid" /\ pc[p] # "waitpid") =>
            pc[p] \in {"tsl_close", "tsl_ret"}]_vars

\* C8 (as stated): when a child has emitted relay records and ended, the parent
\* that goes on to wait for it has received every record, in order (none is
\* left unread in the channel), has seen the end of the channel and closed it.
C8_RelayDelivered ==
  \A p \in Procs :
    (/\ Running(p) /\ pc[p] \in {"waitpid", "write_status"}
     /\ child_pid[p] \in Procs
     /\ pstate[child_pid[p]] # "running"
     /\ (tsl_chan # <<>> \/ tsl_rx # <<>>)) =>
      (tsl_chan = <<>> /\ tsl_fd = "closed")

\* C9 (as stated): for each record the receiver has read in full, it has asked
\* the engine to compile the block of that pc, cs_base and flags, with the
\* engine's locks held around the compilation.
C9_CompilesEachRecord ==
  \A i \in 1 .. Len(tsl_rx) :
    /\ i <= Len(tb_gen)
    /\ tb_gen[i].msg = tsl_rx[i]
    /\ tb_gen[i].locked

\* a relay write is made only by a process whose fork-child flag is set
EmitterOnlyInChild ==
  (tsl_writes' # tsl_writes \/ tsl_chan' # tsl_chan) =>
    \E p \in Procs :
      Running(p) /\ pc[p] = "run" /\ afl_fork_child[p] = 1 /\ IsChild(p)

\* a relay write, failed or not, changes nothing of any process, of the
\* kernel's process table or of the controller's pipes
RelayWriteIsSilent ==
  tsl_writes' # tsl_writes =>
    /\ UNCHANGED <<pc, afl_area_ptr, afl_fork_child, afl_forksrv_pid, afl_inst_rms,
                   prev_loc, tmp, failed_len, child_pid, status, fds, exit_code,
                   exit_at, afl_area, kernVars, ctlVars>>
    /\ tsl_chan' \in {tsl_chan} \cup {Append(tsl_chan, m) : m \in TslMsgs}

\* C10: afl_request_tsl writes to the relay channel only in a process whose
\* fork-child flag is set (never in the fork server's parent or in a process
\* that did not fork), and a relay write that fails changes no state, ends no
\* process and leaves the controller's messages alone.
C10_EmitterBestEffort ==
  /\ [](\A p \in Procs : afl_fork_child[p] = 1 => IsChild(p))
  /\ [][EmitterOnlyInChild /\ RelayWriteIsSilent]_vars

\* a child has made two relay writes, one of which failed, and runs on while
\* its parent waits for it
C10_Witness ==
  \E c \in Procs :
    /\ IsChild(c) /\ Running(c) /\ pc[c] = "run" /\ afl_fork_child[c] = 1
    /\ tsl_writes = 2 /\ Len(tsl_chan) = 1
    /\ pc[Root] = "waitpid" /\ child_pid[Root] = c
    /\ Len(Full(ctl_out)) = 2

\* the forked children that are alive
LiveChildren == {c \in Procs : IsChild(c) /\ Running(c)}

\* the processes at a position from which their next step may write the
\* bitmap: afl_setup (it attaches and touches slot 0), or a block about to be
\* logged with the bitmap attached
Mutators ==
  {p \in Procs : /\ Running(p)
                 /\ \/ pc[p] = "setup"
                    \/ pc[p] \in {"run", "log_entry"} /\ afl_area_ptr[p] # NULL}

\* C11: at most one forked child is alive at any time; while a child is alive
\* its parent is inside the fork server's loop (or gone) and records nothing,
\* so at most one process can write the bitmap; and the parent is at the fork
\* only when every child it made before has been waited for.
C11_OneChildAtATime ==
  /\ Cardinality(LiveChildren) <= 1
  /\ Cardinality(Mutators) <= 1
  /\ \A c \in LiveChildren :
       /\ ppid[c] = Root
       /\ pc[Root] \in {"write_pid", "waitpid", "exited"}
       /\ child_pid[Root] = c
  /\ \A p \in Procs :
       (Running(p) /\ pc[p] \in {"wait_go", "fork"}) =>
         \A c \in Procs : ppid[c] = p => pstate[c] = "reaped"

\* the second child runs and has recorded an edge, the first has been waited
\* for, and the parent waits for the second
C11_Witness ==
  /\ nforks = 2
  /\ pstate[Root + 1] = "reaped"
  /\ Running(Root + 2) /\ pc[Root + 2] = "run" /\ afl_area_ptr[Root + 2] # NULL
  /\ prev_loc[Root + 2][MainThread] # 0
  /\ pc[Root] = "waitpid"
  /\ afl_area # <<>>

\* the call that a step of the logging harness made, if it made one
CallMade == Len(calls') = Len(calls) + 1
LastCall == calls'[Len(calls')]

\* the slots either bitmap holds a value for
Touched == (DOMAIN afl_area) \cup (DOMAIN afl_area')

\* the effect of one call on the bitmap, for the scrambled value s, the rate
\* R and the prev_loc the call started with
CountsItsEdge ==
  CallMade =>
    LET s == Scramble(LastCall.loc)
        R == afl_inst_rms[LastCall.by]
        i == BitXor(s, prev_loc[LastCall.by][LastCall.th])
    IN afl_area_ptr[LastCall.by] # NULL =>
         /\ s < R =>
              /\ Slot(afl_area', i) = (Slot(afl_area, i) + 1) % 256
              /\ \A j \in Touched \ {i} : Slot(afl_area', j) = Slot(afl_area, j)
         /\ s >= R => afl_area' = afl_area
         /\ R = MAP_SIZE => afl_area' # afl_area

\* C12: with the bitmap attached, a call for address a under rate R, with
\* s the scrambled a, adds one to slot s XOR prev_loc and changes no other slot
\* when s < R, and changes no slot when s >= R; under R = MAP_SIZE every call
\* counts.
C12_CountsItsEdge == [][CountsItsEdge]_vars

\* under a rate below MAP_SIZE one call was skipped and one edge counted twice
C12_Witness ==
  /\ afl_area_ptr[Root] # NULL
  /\ afl_inst_rms[Root] < MAP_SIZE
  /\ \E k \in 1 .. Len(calls) : calls[k].idx = -1
  /\ \E i \in DOMAIN afl_area : i # 0 /\ afl_area[i] = 2

\* how many of the calls made counted slot i
Hits(i) == Cardinality({k \in 1 .. Len(calls) : calls[k].idx = i})

\* C13: the counters are bytes that wrap: every slot holds a value in 0..255,
\* equal to the value it was handed over with plus the number of recordings
\* that hit it, modulo 256; after 256 recordings of one slot it holds its
\* starting value again (0 when it started at 0).
C13_ByteWrap ==
  \A i \in DOMAIN afl_area :
    /\ afl_area[i] \in 0 .. 255
    /\ afl_area[i] = (Slot(area0, i) + Hits(i)) % 256
    /\ Hits(i) = 256 => afl_area[i] = Slot(area0, i)

\* one edge has been recorded 256 times and its counter, which started at 0,
\* is 0 again
C13_Witness ==
  \E i \in DOMAIN afl_area :
    /\ Hits(i) = 256
    /\ Slot(area0, i) = 0
    /\ afl_area[i] = 0

\* the calls thread th of process p has made, oldest first
CallsOf(p, th) == SelectSeq(calls, LAMBDA c : c.by = p /\ c.th = th)

\* the call for address a is one that records in process p
WouldRecord(p, a) == afl_area_ptr[p] # NULL /\ Scramble(a) < afl_inst_rms[p]

\* C14: when the last call a thread made recorded, with scrambled value v, the
\* thread's prev_loc is v >> 1, whatever it was before that call.
C14_PrevLocIsHalf ==
  \A p \in Procs, th \in Threads :
    LET mine == CallsOf(p, th) IN
    (mine # <<>> /\ WouldRecord(p, mine[Len(mine)].loc)) =>
      prev_loc[p][th] = Scramble(mine[Len(mine)].loc) \div 2

\* two recording calls in a row for different blocks: the second started from
\* the first one's prev_loc and left its own
C14_Witness ==
  /\ Len(calls) >= 2
  /\ WouldRecord(Root, calls[Len(calls) - 1].loc)
  /\ WouldRecord(Root, calls[Len(calls)].loc)
  /\ Scramble(calls[Len(calls) - 1].loc) \div 2 # Scramble(calls[Len(calls)].loc) \div 2
  /\ Scramble(calls[Len(calls) - 1].loc) \div 2 # 0
  /\ prev_loc[Root][MainThread] = Scramble(calls[Len(calls)].loc) \div 2

\* the rate the ratio input x stands for: MAP_SIZE with no input; else
\* MAP_SIZE * r / 100, r being the number read (as unsigned, so that a negative
\* one is above 100) with 0 made 1 and anything above 100 made 100
RateFor(x) ==
  IF ~x.set THEN MAP_SIZE
  ELSE IF x.val = 0 THEN (MAP_SIZE * 1) \div 100
  ELSE IF x.val < 0 \/ x.val > 100 THEN (MAP_SIZE * 100) \div 100
  ELSE (MAP_SIZE * x.val) \div 100

\* afl_setup has run to its end in process p at least once (where only the
\* entry point is executed, budget counts the times it was)
SetupDone(p) ==
  \/ pc[p] \in {"forkserver", "handshake", "log_entry", "wait_go"}
  \/ pc[p] = "run" /\ budget >= 1
  \/ pc[p] = "setup" /\ budget >= 2

\* C15: afl_inst_rms is always above 0 and at most MAP_SIZE; once afl_setup has
\* run, however often, it is MAP_SIZE when no ratio is given and else
\* MAP_SIZE * r / 100 for the clamped ratio r, so that ratio 0 gives the rate
\* of ratio 1.
C15_RateInRange ==
  /\ \A p \in Procs : afl_inst_rms[p] > 0 /\ afl_inst_rms[p] <= MAP_SIZE
  /\ SetupDone(Root) => afl_inst_rms[Root] = RateFor(inst_r)
  /\ (SetupDone(Root) /\ inst_r = RatioSet(0)) =>
       afl_inst_rms[Root] = RateFor(RatioSet(1))

\* afl_setup has run twice under ratio 0 and is about to run again
C15_Witness ==
  /\ inst_r = RatioSet(0)
  /\ pc[Root] = "setup" /\ budget = 3
  /\ afl_inst_rms[Root] = MAP_SIZE \div 100
  /\ afl_inst_rms[Root] > 0

\* C16: every slot afl_maybe_log has written is in 0..MAP_SIZE-1, for any
\* addresses and any rate afl_setup can set: the scrambled location of every
\* call is below MAP_SIZE, every thread's prev_loc is below MAP_SIZE/2, and so
\* is every index (scrambled location XOR prev_loc) below MAP_SIZE.
C16_IndexInBounds ==
  /\ DOMAIN afl_area \subseteq 0 .. (MAP_SIZE - 1)
  /\ \A p \in Procs, th \in Threads :
       prev_loc[p][th] \in 0 .. ((MAP_SIZE \div 2) - 1)
  /\ \A k \in 1 .. Len(calls) :
       /\ Scramble(calls[k].loc) \in 0 .. (MAP_SIZE - 1)
       /\ calls[k].idx \in -1 .. (MAP_SIZE - 1)
       /\ \A p \in Procs, th \in Threads :
            BitXor(Scramble(calls[k].loc), prev_loc[p][th]) \in 0 .. (MAP_SIZE - 1)

\* the block with the highest address was recorded after another block, and
\* some slot in the upper half of the bitmap was counted
C16_Witness ==
  /\ \E k \in 2 .. Len(calls) :
       /\ calls[k].loc = (2 ^ 23) - 1
       /\ calls[k].idx >= 0
       /\ calls[k - 1].idx > 0
  /\ \E i \in DOMAIN afl_area : i >= MAP_SIZE \div 2
  /\ prev_loc[Root][MainThread] # 0

\* what one thread of process p, running alone from prev_loc prev, does for
\* the blocks locs in turn: the slot each call counts (-1 for none) ...
RECURSIVE AloneSlots(_, _, _)
AloneSlots(p, locs, prev) ==
  IF locs = <<>> THEN <<>>
  ELSE IF WouldRecord(p, Head(locs))
       THEN <<BitXor(Scramble(Head(locs)), prev)>>
              \o AloneSlots(p, Tail(locs), Scramble(Head(locs)) \div 2)
       ELSE <<-1>> \o AloneSlots(p, Tail(locs), prev)

\* ... and the prev_loc it ends with
RECURSIVE AlonePrevLoc(_, _, _)
AlonePrevLoc(p, locs, prev) ==
  IF locs = <<>> THEN prev
  ELSE AlonePrevLoc(p, Tail(locs),
                    IF WouldRecord(p, Head(locs))
                    THEN Scramble(Head(locs)) \div 2 ELSE prev)

LocsOf(cs) == [k \in 1 .. Len(cs) |-> cs[k].loc]
SlotsOf(cs) == [k \in 1 .. Len(cs) |-> cs[k].idx]

\* the calls of a thread that have run to their end
DoneCallsOf(p, th) ==
  IF tpc[p][th] = "store"
  THEN SubSeq(CallsOf(p, th), 1, Len(CallsOf(p, th)) - 1)
  ELSE CallsOf(p, th)

\* C17: prev_loc is per thread: under any interleaving of the calls of two
\* threads of one process, each thread's prev_loc is what its own calls alone
\* would have left (no call of another thread changes it), and the slots each
\* thread counts are, in order, those it would count running alone.
C17_PrevLocPerThread ==
  \A th \in Threads :
    /\ SlotsOf(CallsOf(Root, th)) = AloneSlots(Root, LocsOf(CallsOf(Root, th)), 0)
    /\ prev_loc[Root][th] = AlonePrevLoc(Root, LocsOf(DoneCallsOf(Root, th)), 0)

\* both threads have recorded, their calls interleaved, and they hold
\* different prev_loc values
C17_Witness ==
  /\ Len(calls) = 4
  /\ calls[1].th # calls[2].th /\ calls[2].th # calls[3].th /\ calls[3].th # calls[4].th
  /\ \A k \in 1 .. 3 : calls[k].idx >= 0
  /\ \A th \in Threads : tpc[Root][th] = "idle"
  /\ prev_loc[Root][MainThread] # prev_loc[Root][MainThread + 1]
  /\ prev_loc[Root][MainThread] # 0 /\ prev_loc[Root][MainThread + 1] # 0

\* C18: a forked child never becomes a fork server.  When it comes to the
\* entry point again its handshake write goes to a descriptor it has closed and
\* fails, so it never takes a position of the loop, never reads a go message,
\* never forks and never sets afl_forksrv_pid to its own pid; every message
\* the controller gets is from the original process, and every process ever
\* forked is its child: there are no grandchildren.
C18_ChildNeverServes ==
  /\ \A c \in Procs :
       IsChild(c) =>
         /\ ppid[c] = Root
         /\ pc[c] \notin LoopPositions
         /\ child_pid[c] = 0
         /\ afl_forksrv_pid[c] # c
         /\ (Running(c) /\ pc[c] = "handshake") => (FORKSRV_FD + 1) \notin fds[c]
  /\ \A i \in 1 .. Len(ctl_out) : ctl_out[i].by = Root
  /\ Len(SelectSeq(ctl_out, LAMBDA e : e.kind = "hello" /\ e.len = 4)) <= 1

\* a child that had logged its first block came to the entry point again, was
\* turned away at the handshake and is back at the logger, while the original
\* process, which never logged, still waits for it
C18_Witness ==
  \E c \in Procs :
    /\ IsChild(c) /\ Running(c) /\ pc[c] = "log_entry"
    /\ prev_loc[Root][MainThread] = 0
    /\ prev_loc[c][MainThread] # 0
    /\ pc[Root] = "waitpid" /\ child_pid[Root] = c
    /\ nforks = 1
    /\ Len(ctl_out) = 2

\* a call that does not record changes neither the bitmap nor any prev_loc
SkippedCallChangesNothing ==
  (CallMade /\ ~WouldRecord(LastCall.by, LastCall.loc)) =>
    (afl_area' = afl_area /\ prev_loc' = prev_loc)

\* the calls before the k-th that recorded
RecordedBefore(k) == {j \in 1 .. (k - 1) : WouldRecord(calls[j].by, calls[j].loc)}

\* the prev_loc the last recording call before the k-th left (0 before any)
PrevLocBefore(k) ==
  IF RecordedBefore(k) = {} THEN 0
  ELSE Scramble(calls[CHOOSE j \in RecordedBefore(k) :
                        \A i \in RecordedBefore(k) : i <= j].loc) \div 2

\* every recorded edge starts at the last recorded block, whatever calls were
\* skipped in between
EdgeFromLastRecorded ==
  \A k \in 1 .. Len(calls) :
    IF WouldRecord(calls[k].by, calls[k].loc)
    THEN calls[k].idx = BitXor(Scramble(calls[k].loc), PrevLocBefore(k))
    ELSE calls[k].idx = -1

\* C19: a call of afl_maybe_log that does not record, because the bitmap is
\* unattached or the scrambled value is not below the rate, leaves the whole
\* bitmap and prev_loc as they were; the next recorded edge is taken from the
\* last recorded block, not from the skipped one.
C19_SkipLeavesNoTrace ==
  /\ []EdgeFromLastRecorded
  /\ [][SkippedCallChangesNothing]_vars

\* with the bitmap attached, a block was recorded, the next skipped for the
\* rate, and the one after recorded from the first
C19_Witness ==
  /\ afl_area_ptr[Root] # NULL
  /\ \E k \in 2 .. (Len(calls) - 1) :
       /\ WouldRecord(Root, calls[k - 1].loc)
       /\ ~WouldRecord(Root, calls[k].loc)
       /\ WouldRecord(Root, calls[k + 1].loc)
       /\ Scramble(calls[k].loc) \div 2 # Scramble(calls[k - 1].loc) \div 2
       /\ calls[k + 1].idx =
            BitXor(Scramble(calls[k + 1].loc), Scramble(calls[k - 1].loc) \div 2)

\* the go message of iteration k + 1 has been read
GoRead(k) == pc[Root] = "fork" /\ nforks = k

\* one of the calls of the iteration failed and ended the fork server: fork,
\* a write to the controller that did not take 4 bytes, or waitpid
IterationFailed ==
  exit_at[Root] \in {"fork", "write_pid", "waitpid", "write_status"}

\* iteration k + 1 is reported, pid then status of its child, and the fork
\* server waits for the next go message
IterationDone(k) ==
  /\ pc[Root] = "wait_go"
  /\ Len(Full(ctl_out)) = (2 * k) + 3
  /\ Full(ctl_out)[(2 * k) + 2] =
       [by |-> Root, kind |-> "pid", val |-> Root + k + 1, len |-> 4]
  /\ Full(ctl_out)[(2 * k) + 3] =
       [by |-> Root, kind |-> "status", val |-> wstatus[Root + k + 1], len |-> 4]
  /\ pstate[Root + k + 1] = "reaped"

====
